---- MODULE Spec2Model ----
(***************************************************************************)
(* Model of LiCSBAS132_3D_correction.py: the per-interferogram correction  *)
(* decision (correction_decision), the batch runner (perform_correction,   *)
(* even_split), the report writer (save_lists), the network evaluation     *)
(* (plot_networks) and the threshold relaxation loop (main).               *)
(*                                                                         *)
(* Units.  A residual raster is held in hundredths of a cycle, i.e. the    *)
(* value of res_num_2pi (lines 262-264) before the bias is removed, times  *)
(* 100.  Thresholds are held in hundredths of a cycle too, so the 0.05     *)
(* step of the relaxation loop is 5.  An unwrapped-phase raster is held in *)
(* hundredths of 2*pi, so subtracting k cycles subtracts 100*k.  A missing *)
(* pixel is the value NaN.  Rasters are flat sequences of pixels.          *)
(***************************************************************************)
EXTENDS Integers, Sequences, FiniteSets, TLC

\* ------------------------------------------------------------------ bounds
NPix == 3          \* pixels of a raster in the single-pair specification
PatLen == 3        \* largest small batch
MaxRelax == 2      \* steps between the two initial thresholds, when they differ
MaxPara == 2       \* largest number of processes
BaseThresh == 20   \* the smaller initial threshold
MaxSplitLen == 12  \* longest list handed to even_split on its own
MaxSplitPara == 6  \* largest number of parts asked of even_split on its own

\* --------------------------------------------------------- program constants
NaN == 100000      \* the float NaN of a raster, outside every value's range
Scale == 100       \* one cycle, in the model's unit
HistLo == -250     \* np.arange(-2.5, 2.6, 0.1): first edge
HistHi == 250      \* np.arange(-2.5, 2.6, 0.1): last edge
BinWidth == 10     \* np.arange(-2.5, 2.6, 0.1): step
HalfBin == 5       \* bins[...] + 0.05
ThreshStep == 5    \* correction_thresh += 0.05; target_thresh += 0.05
ParallelMin == 100 \* len(res_list) > 100

\* ------------------------------------------------------------ pure helpers
IsNaN(v) == v = NaN

\* a raster given pixel by pixel, as the sequence of its pixels
Raster(f) == f \o <<>>

SeqToSet(s) == {s[k] : k \in DOMAIN s}

RECURSIVE SumOver(_, _)
SumOver(f, S) ==
    IF S = {} THEN 0
    ELSE LET k == CHOOSE x \in S : TRUE IN f[k] + SumOver(f, S \ {k})

\* indices of the pixels np.nanmean takes into account
Valid(f) == {k \in DOMAIN f : ~IsNaN(f[k])}

\* sum of squares of the valid pixels (numerator of the nanmean of f ** 2)
SumSq(f) == SumOver([k \in Valid(f) |-> f[k] * f[k]], Valid(f))

\* np.sqrt(np.nanmean(f ** 2)) < t.  The RMS is NaN when no pixel is valid,
\* and a NaN compares false with everything.
RmsLess(f, t) ==
    /\ Valid(f) # {}
    /\ t > 0
    /\ SumSq(f) < t * t * Cardinality(Valid(f))

\* np.sqrt(np.nanmean(f ** 2)) > t
RmsGreater(f, t) ==
    /\ Valid(f) # {}
    /\ \/ t < 0
       \/ SumSq(f) > t * t * Cardinality(Valid(f))

\* np.histogram(..., np.arange(-2.5, 2.6, 0.1)): the values counted, and the
\* bin of a counted value (the last bin is closed on the right)
InHist(v) == ~IsNaN(v) /\ v >= HistLo /\ v <= HistHi

NBins == (HistHi - HistLo) \div BinWidth

BinOf(v) == IF v = HistHi THEN NBins - 1 ELSE (v - HistLo) \div BinWidth

BinCount(r, b) == Cardinality({k \in DOMAIN r : InHist(r[k]) /\ BinOf(r[k]) = b})

\* counts.argmax(): the first bin of greatest count (bin 0 when every count
\* is 0).  Only bins holding a pixel, and bin 0, can be that bin.
ArgMaxBin(r) ==
    LET cand == {BinOf(r[k]) : k \in {j \in DOMAIN r : InHist(r[j])}} \cup {0}
        cnt == [b \in cand |-> BinCount(r, b)]
    IN CHOOSE b \in cand :
          \A c \in cand : cnt[b] > cnt[c] \/ (cnt[b] = cnt[c] /\ b <= c)

\* peak = bins[counts.argmax()] + 0.05
Peak(r) == HistLo + BinWidth * ArgMaxBin(r) + HalfBin

\* res_num_2pi = res_num_2pi - peak
Cycles(r) ==
    LET peak == Peak(r)
    IN Raster([k \in DOMAIN r |-> IF IsNaN(r[k]) THEN NaN ELSE r[k] - peak])

\* np.round of one value: to the nearest integer, halves to the even one
Round(x) ==
    LET q == x \div Scale
        m == x % Scale
    IN IF 2 * m < Scale THEN q
       ELSE IF 2 * m > Scale THEN q + 1
       ELSE IF q % 2 = 0 THEN q ELSE q + 1

\* res_integer = np.round(res_num_2pi), in whole cycles
IntegerField(c) ==
    Raster([k \in DOMAIN c |-> IF IsNaN(c[k]) THEN NaN ELSE Round(c[k])])

\* res_num_2pi - field, for a field in whole cycles
Residue(c, f) ==
    Raster([k \in DOMAIN c |->
              IF IsNaN(c[k]) \/ IsNaN(f[k]) THEN NaN ELSE c[k] - Scale * f[k]])

SetMin(S) == CHOOSE x \in S : \A y \in S : x <= y

\* np.unique(con.flatten())[1:]: the distinct labels without the smallest
UniqComponents(con) == SeqToSet(con) \ {SetMin(SeqToSet(con))}

\* int_values: the valid rounded values of the pixels labelled j
ComponentValues(ri, con, j) == {k \in DOMAIN ri : con[k] = j /\ ~IsNaN(ri[k])}

\* stats.mode(int_values)[0][0]: the most frequent value, the smallest one
\* among equally frequent values
ModeOf(ri, S) ==
    LET vals == {ri[k] : k \in S}
        cnt == [v \in vals |-> Cardinality({k \in S : ri[k] = v})]
    IN CHOOSE v \in vals :
          \A w \in vals : cnt[v] > cnt[w] \/ (cnt[v] = cnt[w] /\ v <= w)

\* stats.mode of an empty array has no first element: [0][0] raises
ModeRaises(ri, con) ==
    \E j \in UniqComponents(con) : ComponentValues(ri, con, j) = {}

\* res_mode: a copy of res_integer where every pixel of a component of
\* uniq_components holds the component's mode
ModeField(ri, con) ==
    LET uniq_components == UniqComponents(con)
        mode == [j \in uniq_components |->
                    ModeOf(ri, ComponentValues(ri, con, j))]
    IN Raster([k \in DOMAIN ri |->
                  IF con[k] \in uniq_components THEN mode[con[k]] ELSE ri[k]])

\* unw - field * 2 * np.pi
Corrected(unw, f) ==
    Raster([k \in DOMAIN unw |->
              IF IsNaN(unw[k]) \/ IsNaN(f[k]) THEN NaN ELSE unw[k] - Scale * f[k]])


\* ------------------------------------------------------------------- state
VARIABLES
    pc,                        \* position of main
    calls,                     \* calls of perform_correction so far
    rasters,                   \* pair -> [res, con, unw]: the input files
    glob_list,                 \* the pairs in the order glob finds their files
    n_para,                    \* number of processes
    correction_thresh,
    target_thresh,
    good_ifg,
    ifg_corrected_by_mode,
    ifg_corrected_by_integer,
    bad_ifg_not_corrected,
    res_list,                  \* the batch of the call in progress
    outfile,                   \* pair -> the .unw file under correct_dir
    res_mode,                  \* pair -> the mode field handed to plot_correction
    evaluated,                 \* pairs whose loop body ran in the current batch
    bad_before,                \* the bad pairs when the current batch began
    parts,                     \* pool.map: the partitions
    results,                   \* pool.map: the result of each partition
    reports,                   \* the list files save_lists has written
    n_gap,
    strong_links,
    strong_file                \* info/132strong_link_ifgs.txt

vars == <<pc, calls, rasters, glob_list, n_para, correction_thresh, target_thresh,
          good_ifg, ifg_corrected_by_mode, ifg_corrected_by_integer,
          bad_ifg_not_corrected, res_list, outfile, res_mode, evaluated,
          bad_before, parts, results, reports, n_gap, strong_links, strong_file>>

Pairs == DOMAIN rasters

\* (a file left by an earlier run)
StaleFile == [kind |-> "file", data |-> <<>>]

\* no file at a pair's output location: correct_dir is removed at the start
NoFile == [kind |-> "none", data |-> <<>>]

\* --------------------------------------------------- correction_decision
\* (the comparison turned round)
IsGoodAbove(c, ct) == RmsGreater(c, ct)

\* if res_rms < correction_thresh
IsGood(c, ct) == RmsLess(c, ct)

\* (>= in place of >)
IsBadOrEqual(c, ri, tt) ==
    /\ Valid(Residue(c, ri)) # {}
    /\ ~RmsLess(Residue(c, ri), tt)

\* if rms_res_integer_corrected > target_thresh
IsBad(c, ri, tt) == RmsGreater(Residue(c, ri), tt)

\* (<= in place of <)
ModeIsUsefulOrEqual(c, rm, tt) ==
    /\ Valid(Residue(c, rm)) # {}
    /\ ~RmsGreater(Residue(c, rm), tt)

\* if rms_res_mode_corrected < target_thresh
ModeIsUseful(c, rm, tt) == RmsLess(Residue(c, rm), tt)

\* os.link(unwfile, linkfile): the output is the input file itself
LinkOf(unw) == [kind |-> "link", data |-> unw]

\* unw_corrected.flatten().tofile(...)
FileOf(unw, f) == [kind |-> "file", data |-> Corrected(unw, f)]

\* The local state of one call of correction_decision, with the files it has
\* written so far: the four lists, the output files, the mode fields plotted,
\* the pairs visited, and whether an exception has ended the call.
StartOf(out, rm) ==
    [bad |-> <<>>, mode |-> <<>>, int |-> <<>>, good |-> <<>>,
     out |-> out, rm |-> rm, seen |-> {}, raised |-> FALSE]

\* one pass of the loop body, for pair p
DecidePair(p, st) ==
    LET sc == rasters[p]
        c == Cycles(sc.res)
        ri == IntegerField(c)
        rm == ModeField(ri, sc.con)
        s1 == [st EXCEPT !.seen = @ \cup {p}]
    IN IF IsGood(c, correction_thresh)
       THEN IF st.out[p].kind # "none"
            THEN [s1 EXCEPT !.raised = TRUE]        \* os.link: FileExistsError
            ELSE [s1 EXCEPT !.good = Append(@, p),
                            !.out[p] = LinkOf(sc.unw)]
       ELSE IF IsBad(c, ri, target_thresh)
       THEN [s1 EXCEPT !.bad = Append(@, p)]
       ELSE IF ModeRaises(ri, sc.con)
       THEN [s1 EXCEPT !.raised = TRUE]             \* stats.mode(...)[0][0]
       ELSE IF ModeIsUseful(c, rm, target_thresh)
       THEN [s1 EXCEPT !.mode = Append(@, p),
                       !.rm[p] = rm,
                       !.out[p] = FileOf(sc.unw, rm)]
       ELSE [s1 EXCEPT !.int = Append(@, p),
                       !.rm[p] = rm,
                       !.out[p] = FileOf(sc.unw, ri)]

RECURSIVE DecideFrom(_, _, _)
DecideFrom(list, i, st) ==
    IF i > Len(list) \/ st.raised THEN st
    ELSE DecideFrom(list, i + 1, DecidePair(list[i], st))

\* correction_decision(res_list), given the files present when it starts
CorrectionDecision(list, out, rm) == DecideFrom(list, 1, StartOf(out, rm))

\* ----------------------------------------------------------- even_split
\* a[i*k+min(i, m):(i+1)*k+min(i+1, m)] for i in range(n), 0-based i
Min2(a, b) == IF a < b THEN a ELSE b

\* (the remainder of the division left out of the slices)
EvenSplitNoRemainder(a, n) ==
    LET nn == Min2(n, Len(a))
        k == Len(a) \div nn
    IN [i \in 1..nn |-> SubSeq(a, (i - 1) * k + 1, i * k)]

EvenSplit(a, n) ==
    LET nn == Min2(n, Len(a))
        k == Len(a) \div nn
        m == Len(a) % nn
    IN [i \in 1..nn |->
          SubSeq(a, (i - 1) * k + Min2(i - 1, m) + 1, i * k + Min2(i, m))]

\* -------------------------------------------------- perform_correction
\* (the list not emptied)
KeepBad(bad) == bad

\* bad_ifg_not_corrected = []
ResetBad(bad) == <<>>

\* (every *.res file in every call)
BuildResListAll(is_first, found, ifg_list) == found

\* (an empty list passed in taken for no list at all)
BuildResListEmptyAsNone(is_first, found, ifg_list) ==
    IF is_first \/ ifg_list = <<>> THEN found ELSE ifg_list

\* res_list: every *.res file in the first call, the list passed in later
BuildResList(is_first, found, ifg_list) ==
    IF is_first THEN found ELSE ifg_list

\* (assignment in place of extend)
Assign(old, new) == new

\* <list>.extend(<list of the call>)
Extend(old, new) == old \o new

\* if n_para > 1 and len(res_list) > 100
UsePool(list, n) == n > 1 /\ Len(list) > ParallelMin

\* (the first file of the batch left out)
NextResListButFirst ==
    LET l == BuildResList(calls = 0, glob_list, bad_ifg_not_corrected)
    IN SubSeq(l, 2, Len(l))

NextResList == BuildResList(calls = 0, glob_list, bad_ifg_not_corrected)

\* (no exit: the call returns with nothing decided)
EmptyBatchReturns ==
    /\ pc = "correct"
    /\ Len(NextResList) = 0
    /\ pc' = "report"
    /\ calls' = calls + 1
    /\ bad_before' = SeqToSet(bad_ifg_not_corrected)
    /\ res_list' = NextResList
    /\ evaluated' = {}
    /\ bad_ifg_not_corrected' = ResetBad(bad_ifg_not_corrected)
    /\ UNCHANGED <<rasters, glob_list, n_para, correction_thresh, target_thresh,
                   good_ifg, ifg_corrected_by_mode, ifg_corrected_by_integer,
                   outfile, res_mode, parts, results, reports, n_gap,
                   strong_links, strong_file>>

\* sys.exit('No ifgs for correcting...')
EmptyBatchExit ==
    /\ pc = "correct"
    /\ Len(NextResList) = 0
    /\ pc' = "aborted"
    /\ calls' = calls + 1
    /\ bad_before' = SeqToSet(bad_ifg_not_corrected)
    /\ res_list' = NextResList
    /\ evaluated' = {}
    /\ bad_ifg_not_corrected' = ResetBad(bad_ifg_not_corrected)
    /\ UNCHANGED <<rasters, glob_list, n_para, correction_thresh, target_thresh,
                   good_ifg, ifg_corrected_by_mode, ifg_corrected_by_integer,
                   outfile, res_mode, parts, results, reports, n_gap,
                   strong_links, strong_file>>

\* the whole call, in this process
PerformSequential ==
    /\ pc = "correct"
    /\ Len(NextResList) # 0
    /\ ~UsePool(NextResList, n_para)
    /\ LET r == CorrectionDecision(NextResList, outfile, res_mode)
       IN /\ pc' = IF r.raised THEN "raised" ELSE "report"
          /\ bad_ifg_not_corrected' =
                IF r.raised THEN ResetBad(bad_ifg_not_corrected)
                ELSE Extend(ResetBad(bad_ifg_not_corrected), r.bad)
          /\ ifg_corrected_by_mode' =
                IF r.raised THEN ifg_corrected_by_mode
                ELSE Extend(ifg_corrected_by_mode, r.mode)
          /\ ifg_corrected_by_integer' =
                IF r.raised THEN ifg_corrected_by_integer
                ELSE Extend(ifg_corrected_by_integer, r.int)
          /\ good_ifg' =
                IF r.raised THEN good_ifg ELSE Extend(good_ifg, r.good)
          /\ outfile' = r.out
          /\ res_mode' = r.rm
          /\ evaluated' = r.seen
    /\ calls' = calls + 1
    /\ bad_before' = SeqToSet(bad_ifg_not_corrected)
    /\ res_list' = NextResList
    /\ UNCHANGED <<rasters, glob_list, n_para, correction_thresh, target_thresh,
                   parts, results, reports, n_gap, strong_links, strong_file>>

\* pool = multi.Pool(...); pool.map(correction_decision, even_split(...))
PoolDispatch ==
    /\ pc = "correct"
    /\ Len(NextResList) # 0
    /\ UsePool(NextResList, n_para)
    /\ pc' = "pool"
    /\ calls' = calls + 1
    /\ bad_before' = SeqToSet(bad_ifg_not_corrected)
    /\ res_list' = NextResList
    /\ evaluated' = {}
    /\ bad_ifg_not_corrected' = ResetBad(bad_ifg_not_corrected)
    /\ parts' = EvenSplit(NextResList, n_para)
    /\ results' = [i \in DOMAIN EvenSplit(NextResList, n_para) |-> <<>>]
    /\ UNCHANGED <<rasters, glob_list, n_para, correction_thresh, target_thresh,
                   good_ifg, ifg_corrected_by_mode, ifg_corrected_by_integer,
                   outfile, res_mode, reports, n_gap, strong_links, strong_file>>

\* (every worker handed the first partition)
PoolWorkerFirstPart(w) ==
    /\ pc = "pool"
    /\ results[w] = <<>>
    /\ LET r == CorrectionDecision(parts[1], outfile, res_mode)
       IN /\ results' = [results EXCEPT ![w] =
                            <<[bad |-> r.bad, mode |-> r.mode, int |-> r.int,
                               good |-> r.good, raised |-> r.raised]>>]
          /\ outfile' = r.out
          /\ res_mode' = r.rm
          /\ evaluated' = evaluated \cup r.seen
    /\ UNCHANGED <<pc, calls, bad_before, rasters, glob_list, n_para, correction_thresh,
                   target_thresh, good_ifg, ifg_corrected_by_mode,
                   ifg_corrected_by_integer, bad_ifg_not_corrected, res_list,
                   parts, reports, n_gap, strong_links, strong_file>>

\* one worker process runs correction_decision on its partition
PoolWorker(w) ==
    /\ pc = "pool"
    /\ results[w] = <<>>
    /\ LET r == CorrectionDecision(parts[w], outfile, res_mode)
       IN /\ results' = [results EXCEPT ![w] =
                            <<[bad |-> r.bad, mode |-> r.mode, int |-> r.int,
                               good |-> r.good, raised |-> r.raised]>>]
          /\ outfile' = r.out
          /\ res_mode' = r.rm
          /\ evaluated' = evaluated \cup r.seen
    /\ UNCHANGED <<pc, calls, bad_before, rasters, glob_list, n_para, correction_thresh,
                   target_thresh, good_ifg, ifg_corrected_by_mode,
                   ifg_corrected_by_integer, bad_ifg_not_corrected, res_list,
                   parts, reports, n_gap, strong_links, strong_file>>

\* (the lists of the last partition only)
ExtendLast(old, rs, i, field) == Extend(old, rs[Len(rs)][1][field])

\* for ... in results: <list>.extend(...), partition after partition
RECURSIVE ExtendAll(_, _, _, _)
ExtendAll(old, rs, i, field) ==
    IF i > Len(rs) THEN old
    ELSE ExtendAll(Extend(old, rs[i][1][field]), rs, i + 1, field)

\* pool.map returns, or re-raises what a worker raised
PoolCollect ==
    /\ pc = "pool"
    /\ LET anyRaised == \E w \in DOMAIN results :
                            results[w] # <<>> /\ results[w][1].raised
           allDone == \A w \in DOMAIN results : results[w] # <<>>
       IN /\ anyRaised \/ allDone
          /\ pc' = IF anyRaised THEN "raised" ELSE "report"
          /\ bad_ifg_not_corrected' =
                IF anyRaised THEN bad_ifg_not_corrected
                ELSE ExtendAll(bad_ifg_not_corrected, results, 1, "bad")
          /\ ifg_corrected_by_mode' =
                IF anyRaised THEN ifg_corrected_by_mode
                ELSE ExtendAll(ifg_corrected_by_mode, results, 1, "mode")
          /\ ifg_corrected_by_integer' =
                IF anyRaised THEN ifg_corrected_by_integer
                ELSE ExtendAll(ifg_corrected_by_integer, results, 1, "int")
          /\ good_ifg' =
                IF anyRaised THEN good_ifg
                ELSE ExtendAll(good_ifg, results, 1, "good")
    /\ UNCHANGED <<calls, bad_before, rasters, glob_list, n_para, correction_thresh,
                   target_thresh, res_list, outfile, res_mode, evaluated, parts,
                   results, reports, n_gap, strong_links, strong_file>>


\* ------------------------------------------------------------ save_lists
\* the four list files, named after the two thresholds
\* (a file of the same name is replaced)
SaveLists ==
    {r \in reports : ~(/\ r.correction_thresh = correction_thresh
                       /\ r.target_thresh = target_thresh)}
    \cup {[correction_thresh |-> correction_thresh,
           target_thresh |-> target_thresh,
           bad |-> bad_ifg_not_corrected,
           mode |-> ifg_corrected_by_mode,
           int |-> ifg_corrected_by_integer,
           good |-> good_ifg]}

\* --------------------------------------------------------- plot_networks
\* The two acquisition dates of a pair.  Pairs 2k-1 and 2k start at date k:
\* pair 2k-1 ends at date k+1 and pair 2k at date k+2.
Prim(p) == (p + 1) \div 2

Sec(p) == IF p % 2 = 1 THEN Prim(p) + 1 ELSE Prim(p) + 2

Degree(S, d) == Cardinality({p \in S : Prim(p) = d \/ Sec(p) = d})

\* tools_lib.separate_strong_and_weak_links: pairs at a date with fewer than
\* two links are weak, and so on for what is left without them
RECURSIVE StrongLinks(_)
StrongLinks(S) ==
    LET dates == {Prim(p) : p \in S} \cup {Sec(p) : p \in S}
        deg == [d \in dates |-> Degree(S, d)]
        weak == {p \in S : deg[Prim(p)] < 2 \/ deg[Sec(p)] < 2}
    IN IF weak = {} THEN S ELSE StrongLinks(S \ weak)

\* plot_lib.plot_network(retained, bperp, weak_links, ...): the number of
\* intervals between consecutive dates of the retained pairs that no strong
\* link spans
GapCount(retained, strong) ==
    LET dates == {Prim(p) : p \in retained} \cup {Sec(p) : p \in retained}
        spanned(d) == \E p \in strong : Prim(p) <= d /\ d < Sec(p)
    IN Cardinality({d \in dates : (\E e \in dates : e > d) /\ ~spanned(d)})

SortedSeq(s) == SortSeq(s, LAMBDA a, b : a < b)

\* retained_ifgs = good_ifg + ifg_corrected_by_mode + ifg_corrected_by_integer
RetainedIfgs(good, mode, int) == SortedSeq(good \o mode \o int)

RECURSIVE SetToSeq(_)
SetToSeq(S) ==
    IF S = {} THEN <<>>
    ELSE <<SetMin(S)>> \o SetToSeq(S \ {SetMin(S)})

\* (without the two branches that set n_gap = 1)
PlotNetworksNoDummy(good, mode, int) ==
    LET retained == RetainedIfgs(good, mode, int)
        strong == StrongLinks(SeqToSet(retained))
    IN <<GapCount(SeqToSet(retained), strong), SetToSeq(strong)>>

\* plot_networks(): <<n_gap, strong_links>>
PlotNetworks(good, mode, int) ==
    LET retained == RetainedIfgs(good, mode, int)
        strong == StrongLinks(SeqToSet(retained))
    IN IF Len(retained) = 0 THEN <<1, <<>>>>
       ELSE IF strong = {} THEN <<1, <<>>>>
       ELSE <<GapCount(SeqToSet(retained), strong), SetToSeq(strong)>>

\* ------------------------------------------------------------------ main
\* save_lists(); n_gap, strong_links = plot_networks()
SaveAndPlot ==
    /\ pc = "report"
    /\ pc' = "loop"
    /\ reports' = SaveLists
    /\ LET nw == PlotNetworks(good_ifg, ifg_corrected_by_mode,
                               ifg_corrected_by_integer)
       IN /\ n_gap' = nw[1]
          /\ strong_links' = nw[2]
    /\ UNCHANGED <<calls, bad_before, rasters, glob_list, n_para, correction_thresh,
                   target_thresh, good_ifg, ifg_corrected_by_mode,
                   ifg_corrected_by_integer, bad_ifg_not_corrected, res_list,
                   outfile, res_mode, evaluated, parts, results, strong_file>>

\* (the threshold left as it is)
KeepThresh(t) == t

\* correction_thresh += 0.05; target_thresh += 0.05
RaiseThresh(t) == t + ThreshStep

\* while n_gap > 0: loosen both thresholds, then correct the bad pairs again
Relax ==
    /\ pc = "loop"
    /\ n_gap > 0
    /\ pc' = "correct"
    /\ correction_thresh' = RaiseThresh(correction_thresh)
    /\ target_thresh' = RaiseThresh(target_thresh)
    /\ UNCHANGED <<calls, bad_before, rasters, glob_list, n_para, good_ifg,
                   ifg_corrected_by_mode, ifg_corrected_by_integer,
                   bad_ifg_not_corrected, res_list, outfile, res_mode,
                   evaluated, parts, results, reports, n_gap, strong_links,
                   strong_file>>

\* the loop is left: the strong links are written to their file
Finish ==
    /\ pc = "loop"
    /\ ~(n_gap > 0)
    /\ pc' = "converged"
    /\ strong_file' = <<strong_links>>
    /\ UNCHANGED <<calls, bad_before, rasters, glob_list, n_para, correction_thresh,
                   target_thresh, good_ifg, ifg_corrected_by_mode,
                   ifg_corrected_by_integer, bad_ifg_not_corrected, res_list,
                   outfile, res_mode, evaluated, parts, results, reports,
                   n_gap, strong_links>>

\* ----------------------------------------------------------------- inputs
\* Input rasters of four pixels, one for each way a decision can go.
SceneCatalogue ==
    << [res |-> <<3, 7, 4, 6>>,       con |-> <<0, 1, 1, 1>>,
        unw |-> <<310, 320, 330, 340>>],      \* within every threshold
       [res |-> <<5, 5, 37, 37>>,     con |-> <<0, 0, 1, 1>>,
        unw |-> <<310, 320, 330, 340>>],      \* RMS 0.23, no whole cycle in it
       [res |-> <<5, 5, 105, 105>>,   con |-> <<0, 0, 1, 1>>,
        unw |-> <<310, 320, 430, 440>>],      \* one component a cycle off
       [res |-> <<5, 5, 5, 105>>,     con |-> <<0, 1, 1, 1>>,
        unw |-> <<310, 320, 330, 440>>],      \* one pixel a cycle off
       [res |-> <<5, 5, 145, 145>>,   con |-> <<1, 1, 2, 2>>,
        unw |-> <<310, 320, 470, 480>>],      \* 1.4 cycles off, no label 0
       [res |-> <<5, 5, NaN, 105>>,   con |-> <<0, 0, 1, 0>>,
        unw |-> <<310, 320, 330, 440>>] >>    \* a component with no valid pixel

SceneIds == 1..Len(SceneCatalogue)

\* the scenes a batch large enough for the pool is made of
BigScenes == {2, 5, 6}

\* glob.glob gives the files in no particular order
GlobOrders(n) == {[i \in 1..n |-> i], [i \in 1..n |-> n + 1 - i]}

\* the thresholds get_para reads: the correction threshold, and a target
\* threshold that is the same (option -s) or another entry of the file
ThreshChoices ==
    {<<BaseThresh, BaseThresh>>,
     <<BaseThresh + MaxRelax * ThreshStep, BaseThresh>>}

\* the state when main calls perform_correction for the first time
Setup(rs, found, np, th) ==
    /\ pc = "correct"
    /\ calls = 0
    /\ rasters = rs
    /\ glob_list = found
    /\ n_para = np
    /\ correction_thresh = th[1]
    /\ target_thresh = th[2]
    /\ good_ifg = <<>>
    /\ ifg_corrected_by_mode = <<>>
    /\ ifg_corrected_by_integer = <<>>
    /\ bad_ifg_not_corrected = <<>>
    /\ res_list = <<>>
    /\ outfile = [p \in DOMAIN rs |-> NoFile]
    /\ res_mode = [p \in DOMAIN rs |-> <<>>]
    /\ evaluated = {}
    /\ bad_before = {}
    /\ parts = <<>>
    /\ results = <<>>
    /\ reports = {}
    /\ n_gap = 0
    /\ strong_links = <<>>
    /\ strong_file = <<>>

\* a small batch of any scenes, or a batch of more than 100 pairs, of two
\* scenes in turn, for the pool
Init ==
    \/ \E n \in 0..PatLen, th \in ThreshChoices :
          \E pat \in [1..n -> SceneIds], found \in GlobOrders(n) :
             Setup([p \in 1..n |-> SceneCatalogue[pat[p]]], found, MaxPara, th)
    \/ \E a \in BigScenes, b \in BigScenes, np \in 1..MaxPara :
          Setup([p \in 1..(ParallelMin + 1) |->
                    SceneCatalogue[IF p % 2 = 1 THEN a ELSE b]],
                [i \in 1..(ParallelMin + 1) |-> i], np,
                <<BaseThresh, BaseThresh>>)

Next ==
    \/ EmptyBatchExit
    \/ PerformSequential
    \/ PoolDispatch
    \/ \E w \in DOMAIN results : PoolWorker(w)
    \/ PoolCollect
    \/ SaveAndPlot
    \/ Relax
    \/ Finish

Spec == Init /\ [][Next]_vars

\* ------------------------------------------------ one pair, any raster
\* the residual values, the labels and the thresholds of the single pair
ResVals == {NaN, 6, 12, 65, 106}

LabelVals == {0, 1, 2}

DecideThresh == {<<5, 5>>, <<30, 5>>, <<30, 30>>}

\* the label rasters: the pixels of a component lie together, the components
\* in the order of their labels
LabelRasters ==
    {con \in [1..NPix -> LabelVals] :
        \A k \in 1..(NPix - 1) : con[k] <= con[k + 1]}

InitDecide ==
    \E res \in [1..NPix -> ResVals], con \in LabelRasters, th \in DecideThresh :
       Setup(<<[res |-> res, con |-> con,
                unw |-> [k \in 1..NPix |-> 300 + 10 * k]]>>, <<1>>, 1, th)

NextDecide == PerformSequential

SpecDecide == InitDecide /\ [][NextDecide]_vars


\* ------------------------------------------------ even_split on its own
\* a non-empty list of pairs in either glob order, and a number of parts
InitSplit ==
    \E len \in 1..MaxSplitLen, n \in 1..MaxSplitPara :
       \E found \in GlobOrders(len) :
          Setup([p \in 1..len |-> SceneCatalogue[1]], found, n, <<BaseThresh, BaseThresh>>)

\* even_split(res_list, n_para), as pool.map is handed it
ApplyEvenSplit ==
    /\ pc = "correct"
    /\ pc' = "split"
    /\ res_list' = glob_list
    /\ parts' = EvenSplit(glob_list, n_para)
    /\ UNCHANGED <<calls, rasters, glob_list, n_para, correction_thresh,
                   target_thresh, good_ifg, ifg_corrected_by_mode,
                   ifg_corrected_by_integer, bad_ifg_not_corrected, outfile,
                   res_mode, evaluated, bad_before, results, reports, n_gap,
                   strong_links, strong_file>>

NextSplit == ApplyEvenSplit

SpecSplit == InitSplit /\ [][NextSplit]_vars

\* ---------------------------------------------------------------- claims
InList(p, l) == \E i \in DOMAIN l : l[i] = p

Retained == good_ifg \o ifg_corrected_by_mode \o ifg_corrected_by_integer

\* the bias-removed cycles field of pair p and its nearest-integer field
CyclesOfPair(p) == Cycles(rasters[p].res)

IntegerOfPair(p) == IntegerField(CyclesOfPair(p))

RmsBelowCorrection(p) == RmsLess(CyclesOfPair(p), correction_thresh)

IntegerRmsAboveTarget(p) ==
    RmsGreater(Residue(CyclesOfPair(p), IntegerOfPair(p)), target_thresh)

\* C1: a pair whose RMS of the bias-removed cycles is strictly below
\* correction_thresh is put in the good list only, no correction is computed
\* for it, and its output raster is a link to the original unwrapped raster.
C1_GoodKeepsOriginal ==
    pc \in {"report", "raised"} =>
        \A p \in evaluated :
            RmsBelowCorrection(p) =>
                /\ outfile[p] = [kind |-> "link", data |-> rasters[p].unw]
                /\ res_mode[p] = <<>>
                /\ pc = "report" =>
                      /\ InList(p, good_ifg)
                      /\ ~InList(p, ifg_corrected_by_mode)
                      /\ ~InList(p, ifg_corrected_by_integer)
                      /\ ~InList(p, bad_ifg_not_corrected)

C1_Witness ==
    /\ pc = "report"
    /\ \E p \in evaluated :
          /\ RmsBelowCorrection(p)
          /\ InList(p, good_ifg)
          /\ outfile[p].kind = "link"

\* C2: a pair that is not good is categorized bad exactly when the RMS of
\* (cycles - round(cycles)) is strictly greater than target_thresh; a bad pair
\* gets no correction and no output raster.
C2_BadIffIntegerRmsAbove ==
    pc \in {"report", "raised"} =>
        \A p \in evaluated :
            ~RmsBelowCorrection(p) =>
                IF IntegerRmsAboveTarget(p)
                THEN /\ InList(p, bad_ifg_not_corrected)
                     /\ ~InList(p, Retained)
                     /\ outfile[p] = NoFile
                     /\ res_mode[p] = <<>>
                ELSE ~InList(p, bad_ifg_not_corrected)

C2_Witness ==
    /\ pc = "report"
    /\ \E p \in evaluated :
          /\ ~RmsBelowCorrection(p)
          /\ IntegerRmsAboveTarget(p)
          /\ InList(p, bad_ifg_not_corrected)
          /\ outfile[p] = NoFile

\* C3: a pair that reaches the choice between mode and integer correction is
\* mode-corrected if and only if RMS(cycles - mode_field) < target_thresh and
\* integer-corrected otherwise, never both and never neither; the raster
\* written is unw less the chosen field times 2 pi.
C3_ModeXorInteger ==
    pc = "report" =>
        \A p \in evaluated :
            (~RmsBelowCorrection(p) /\ ~IntegerRmsAboveTarget(p)) =>
                LET useful == RmsLess(Residue(CyclesOfPair(p), res_mode[p]),
                                      target_thresh)
                IN /\ InList(p, ifg_corrected_by_mode) <=> useful
                   /\ InList(p, ifg_corrected_by_integer) <=> ~useful
                   /\ ~InList(p, good_ifg)
                   /\ ~InList(p, bad_ifg_not_corrected)
                   /\ outfile[p] =
                         [kind |-> "file",
                          data |-> Corrected(rasters[p].unw,
                                             IF useful THEN res_mode[p]
                                             ELSE IntegerOfPair(p))]

C3_Witness ==
    /\ pc = "report"
    /\ \E p \in evaluated :
          /\ InList(p, ifg_corrected_by_integer)
          /\ res_mode[p] # IntegerOfPair(p)
          /\ outfile[p].kind = "file"

\* C4: the four category lists are pairwise disjoint and hold no pair twice,
\* also after the lists of several workers and several iterations are merged.
C4_ListsDisjoint ==
    LET all == Retained \o bad_ifg_not_corrected
    IN \A i \in DOMAIN all : \A j \in DOMAIN all : all[i] = all[j] => i = j

C4_Witness ==
    /\ pc = "report"
    /\ reports # {}
    /\ Len(res_list) > ParallelMin
    /\ Len(parts) > 1
    /\ good_ifg # <<>>
    /\ bad_ifg_not_corrected # <<>>

\* C5: from one step of the run to the next the two thresholds never
\* decrease, and a pair in good, mode-corrected or integer-corrected stays in
\* that list and enters no other.
C5_Step ==
    /\ correction_thresh' >= correction_thresh
    /\ target_thresh' >= target_thresh
    /\ \A p \in Pairs :
          /\ InList(p, good_ifg) =>
                /\ InList(p, good_ifg')
                /\ ~InList(p, ifg_corrected_by_mode' \o ifg_corrected_by_integer'
                              \o bad_ifg_not_corrected')
          /\ InList(p, ifg_corrected_by_mode) =>
                /\ InList(p, ifg_corrected_by_mode')
                /\ ~InList(p, good_ifg' \o ifg_corrected_by_integer'
                              \o bad_ifg_not_corrected')
          /\ InList(p, ifg_corrected_by_integer) =>
                /\ InList(p, ifg_corrected_by_integer')
                /\ ~InList(p, good_ifg' \o ifg_corrected_by_mode'
                              \o bad_ifg_not_corrected')

C5_Monotonic == [][C5_Step]_vars

C5_Witness ==
    /\ pc = "report"
    /\ \E r \in reports :
          /\ r.correction_thresh < correction_thresh
          /\ r.target_thresh < target_thresh
          /\ r.good \o r.mode \o r.int # <<>>
          /\ Len(Retained) > Len(r.good \o r.mode \o r.int)

\* C6: in an iteration after the first the decision procedure runs on pairs
\* that were bad at the end of the previous iteration only, on all of them
\* when the batch completes, and no step changes the output raster of a pair
\* that is good or corrected.
C6_OnlyBadReevaluated ==
    /\ []((pc \in {"pool", "report", "raised"} /\ reports # {}) =>
             /\ evaluated \subseteq bad_before
             /\ pc = "report" => evaluated = bad_before)
    /\ [][\A p \in Pairs : InList(p, Retained) => outfile'[p] = outfile[p]]_vars

C6_Witness ==
    /\ pc = "report"
    /\ reports # {}
    /\ evaluated # {}
    /\ \E p \in Pairs : InList(p, Retained) /\ p \notin evaluated
    /\ \E p \in evaluated : InList(p, Retained)


\* the initial target threshold, as the name of the first list files has it
Target0 ==
    LET ts == {r.target_thresh : r \in reports}
    IN CHOOSE t \in ts : \A u \in ts : t <= u

\* the number of relaxation steps from threshold t that stay below half a cycle
StepsBelowHalf(t) ==
    IF 2 * t >= Scale THEN 0
    ELSE (Scale - 2 * t + 2 * ThreshStep - 1) \div (2 * ThreshStep)

\* C7, as claimed: with a non-empty pair set the run of the relaxation loop
\* ends in Converged, with a gap count of 0 and the strong links written.
\* (A run that an exception of correction_decision ends is not held against
\* the claim here; see C9.)
C7_EndsConverged ==
    (Pairs # {} /\ pc \in {"converged", "aborted"}) =>
        (pc = "converged" /\ n_gap = 0 /\ strong_file = <<strong_links>>)

\* C7, amended: the loop ends, in Converged (gap count 0, strong links
\* written) or by the exit of an empty batch or by an exception: no pair is
\* bad once target_thresh has reached half a cycle, so perform_correction is
\* called at most twice more than there are relaxation steps below it.
C7_EndsWithinBound ==
    /\ reports = {} => calls <= 1
    /\ reports # {} => calls <= 2 + StepsBelowHalf(Target0)
    /\ pc \in {"correct", "pool", "report", "loop",
               "converged", "aborted", "raised"}
    /\ pc = "converged" => (n_gap = 0 /\ strong_file = <<strong_links>>)

C7_Witness ==
    /\ pc = "converged"
    /\ n_gap = 0
    /\ strong_file = <<strong_links>>
    /\ strong_links # <<>>
    /\ calls > 2
    /\ ifg_corrected_by_mode # <<>>


\* the valid pixels with label l, and how often value v occurs among their
\* rounded values
LabelledValid(p, l) ==
    {k \in DOMAIN rasters[p].con :
        rasters[p].con[k] = l /\ ~IsNaN(IntegerOfPair(p)[k])}

Occurrences(p, l, v) ==
    Cardinality({k \in LabelledValid(p, l) : IntegerOfPair(p)[k] = v})

\* v is a most frequent rounded value of the valid pixels labelled l
IsModeOfLabel(p, l, v) ==
    /\ Occurrences(p, l, v) > 0
    /\ \A k \in LabelledValid(p, l) :
          Occurrences(p, l, IntegerOfPair(p)[k]) <= Occurrences(p, l, v)

\* C8: whichever labels occur in the label raster, every pixel of a positive
\* label L holds in mode_field the mode of the rounded values of the valid
\* pixels labelled L, and every pixel of label 0 keeps its own rounded value.
C8_ModePerPositiveLabel ==
    pc = "report" =>
        \A p \in evaluated :
            res_mode[p] # <<>> =>
                \A k \in DOMAIN res_mode[p] :
                    IF rasters[p].con[k] > 0
                    THEN IsModeOfLabel(p, rasters[p].con[k], res_mode[p][k])
                    ELSE res_mode[p][k] = IntegerOfPair(p)[k]

\* pair p gets as far as the component modes, and has a positive label
\* without a valid pixel
ReachesModes(p) == ~RmsBelowCorrection(p) /\ ~IntegerRmsAboveTarget(p)

EmptyLabels(p) ==
    {l \in SeqToSet(rasters[p].con) : l > 0 /\ LabelledValid(p, l) = {}}

\* C9: when a positive label has no valid pixel, correction_decision does
\* not raise: the decision of the pair completes, and the pixels of that
\* label keep their own rounded value in mode_field.
C9_EmptyComponentTolerated ==
    pc # "correct" =>
        \A p \in evaluated :
            (ReachesModes(p) /\ EmptyLabels(p) # {}) =>
                /\ pc = "report"
                /\ InList(p, ifg_corrected_by_mode \o ifg_corrected_by_integer)
                /\ \A k \in DOMAIN rasters[p].con :
                      rasters[p].con[k] \in EmptyLabels(p) =>
                          res_mode[p][k] = IntegerOfPair(p)[k]

\* C10: a pair whose residual raster is NaN everywhere is never good, is put
\* in the bad list, and does not enter the retained set through a correction.
C10_AllNaNIsBad ==
    pc # "correct" =>
        \A p \in evaluated :
            (\A k \in DOMAIN rasters[p].res : IsNaN(rasters[p].res[k])) =>
                /\ pc = "report"
                /\ ~InList(p, good_ifg)
                /\ InList(p, bad_ifg_not_corrected)
                /\ ~InList(p, ifg_corrected_by_mode \o ifg_corrected_by_integer)
                /\ outfile[p] = NoFile

\* the slices of a split, one after the other
RECURSIVE ConcatFrom(_, _)
ConcatFrom(ps, i) ==
    IF i > Len(ps) THEN <<>> ELSE ps[i] \o ConcatFrom(ps, i + 1)

\* C11: for a non-empty list a and n >= 1, even_split(a, n) gives
\* min(n, len(a)) non-empty contiguous slices whose sizes differ by at most
\* one and whose concatenation, in order, is a.
C11_EvenSplitPartitions ==
    pc \in {"split", "pool"} =>
        /\ Len(parts) = Min2(n_para, Len(res_list))
        /\ \A i \in DOMAIN parts : Len(parts[i]) > 0
        /\ \A i \in DOMAIN parts : \A j \in DOMAIN parts :
              Len(parts[i]) - Len(parts[j]) <= 1
        /\ ConcatFrom(parts, 1) = res_list

C11_Witness ==
    /\ pc = "split"
    /\ Len(res_list) > n_para
    /\ Len(res_list) % n_para # 0
    /\ n_para > 2
    /\ res_list[1] > res_list[2]
    /\ \E i \in DOMAIN parts : \E j \in DOMAIN parts : Len(parts[i]) # Len(parts[j])

\* the category of pair p as a function of its rasters and the thresholds
CategoryOf(p) ==
    IF RmsBelowCorrection(p) THEN "good"
    ELSE IF IntegerRmsAboveTarget(p) THEN "bad"
    ELSE IF RmsLess(Residue(CyclesOfPair(p),
                            ModeField(IntegerOfPair(p), rasters[p].con)),
                    target_thresh)
    THEN "mode"
    ELSE "int"

\* the list a category's pairs are merged into
ListOf(cat) ==
    CASE cat = "good" -> good_ifg
      [] cat = "bad" -> bad_ifg_not_corrected
      [] cat = "mode" -> ifg_corrected_by_mode
      [] cat = "int" -> ifg_corrected_by_integer

\* C12: when a batch run completes, every pair of the batch is in the list
\* of the category its rasters and the thresholds determine and in no other
\* list, whether the batch ran in this process or in any number of workers,
\* and in whichever order the workers finished.
C12_CategoryIndependentOfWorkers ==
    pc = "report" =>
        \A p \in SeqToSet(res_list) :
            \A cat \in {"good", "bad", "mode", "int"} :
                InList(p, ListOf(cat)) <=> cat = CategoryOf(p)

C12_Witness ==
    /\ pc = "report"
    /\ UsePool(res_list, n_para)
    /\ \A w \in DOMAIN results : results[w] # <<>>
    /\ \E p \in SeqToSet(parts[1]) : \E q \in SeqToSet(parts[Len(parts)]) :
          CategoryOf(p) # CategoryOf(q)

\* the pairs in the lists worker w has returned
ReturnedBy(w) ==
    SeqToSet(results[w][1].bad \o results[w][1].mode
             \o results[w][1].int \o results[w][1].good)

\* the workers whose partition holds pair p
WorkersOf(p) == {w \in DOMAIN parts : InList(p, parts[w])}

\* C13: in a parallel batch run every pair of the batch is in the partition
\* of exactly one worker, a worker returns the pairs of its own partition, the
\* output raster of a pair is written once, by the worker that has the pair,
\* and no worker writes the report files.
C13_OneWorkerPerPair ==
    /\ [](pc = "pool" =>
             /\ \A p \in SeqToSet(res_list) : Cardinality(WorkersOf(p)) = 1
             /\ \A w \in DOMAIN results :
                   (results[w] # <<>> /\ ~results[w][1].raised) =>
                       ReturnedBy(w) = SeqToSet(parts[w]))
    /\ [][pc = "pool" =>
             /\ reports' = reports
             /\ \A p \in Pairs :
                   outfile'[p] # outfile[p] =>
                       /\ outfile[p] = NoFile
                       /\ \E w \in WorkersOf(p) :
                             results[w] = <<>> /\ results'[w] # <<>>]_vars

C13_Witness ==
    /\ pc = "pool"
    /\ Len(parts) > 1
    /\ \A w \in DOMAIN results : results[w] # <<>> /\ ~results[w][1].raised
    /\ \E p \in SeqToSet(parts[1]) : outfile[p] # NoFile
    /\ \E p \in SeqToSet(parts[Len(parts)]) : outfile[p] # NoFile

\* the files the call about to start would be given
BatchToCome == IF calls = 0 THEN glob_list ELSE bad_ifg_not_corrected

\* C14: when the batch of residual files is empty, perform_correction ends
\* the process by its fatal exit: no pair is decided, no raster is written,
\* and the good, mode-corrected and integer-corrected lists are as they were.
C14_EmptyBatchAborts ==
    /\ [][(pc = "correct" /\ BatchToCome = <<>>) =>
             /\ pc' = "aborted"
             /\ evaluated' = {}
             /\ good_ifg' = good_ifg
             /\ ifg_corrected_by_mode' = ifg_corrected_by_mode
             /\ ifg_corrected_by_integer' = ifg_corrected_by_integer
             /\ outfile' = outfile
             /\ reports' = reports]_vars
    /\ [][pc = "aborted" => pc' = "aborted"]_vars

C14_Witness ==
    /\ pc = "aborted"
    /\ calls > 1
    /\ res_list = <<>>
    /\ ifg_corrected_by_integer # <<>>
    /\ \E r \in reports : r.int = ifg_corrected_by_integer

\* the pair ids of list l are in their natural order
IsSorted(l) == \A i \in DOMAIN l : \A j \in DOMAIN l : i < j => l[i] < l[j]

\* C15: every list file save_lists has written holds its pairs in their
\* natural sort order, whatever the order in which the residual files were
\* found, the workers returned or the pairs were accepted.
C15_ReportsSorted ==
    \A r \in reports :
        IsSorted(r.good) /\ IsSorted(r.bad) /\ IsSorted(r.mode) /\ IsSorted(r.int)

\* the positive labels of pair p that have a valid pixel
ValidComponents(p) ==
    {l \in SeqToSet(rasters[p].con) : l > 0 /\ LabelledValid(p, l) # {}}

\* v is the value of component l: a most frequent rounded value of its valid
\* pixels, the smallest of them when several are equally frequent
IsComponentValue(p, l, v) ==
    /\ IsModeOfLabel(p, l, v)
    /\ \A k \in LabelledValid(p, l) :
          IsModeOfLabel(p, l, IntegerOfPair(p)[k]) => v <= IntegerOfPair(p)[k]

\* C16: in mode_field the pixels of a component all hold one value, a most
\* frequent one among the component's valid rounded values (the smallest on
\* a tie), and the mode_field and the category of a pair are functions of
\* its cycles, labels and thresholds alone.
C16_ModeIsMostFrequent ==
    pc = "report" =>
        \A p \in evaluated :
            res_mode[p] # <<>> =>
                /\ \A l \in ValidComponents(p) :
                      \E k \in LabelledValid(p, l) :
                          /\ IsComponentValue(p, l, IntegerOfPair(p)[k])
                          /\ \A j \in DOMAIN res_mode[p] :
                                rasters[p].con[j] = l =>
                                    res_mode[p][j] = IntegerOfPair(p)[k]
                /\ res_mode[p] = ModeField(IntegerOfPair(p), rasters[p].con)
                /\ InList(p, ListOf(CategoryOf(p)))

\* how many times pair p occurs in list l
CountIn(p, l) == Cardinality({i \in DOMAIN l : l[i] = p})

\* C17: after every completed batch run the four lists together hold every
\* pair of the initial pair set exactly once, and nothing else.
C17_ListsCoverPairs ==
    pc \in {"report", "loop", "converged"} =>
        /\ \A p \in Pairs : CountIn(p, Retained \o bad_ifg_not_corrected) = 1
        /\ SeqToSet(Retained \o bad_ifg_not_corrected) \subseteq Pairs

C17_Witness ==
    /\ pc = "report"
    /\ calls > 1
    /\ bad_ifg_not_corrected # <<>>
    /\ \E p \in evaluated : InList(p, Retained)
    /\ \E p \in Pairs : p \notin bad_before

HasOutput(p) == outfile[p].kind # "none"

\* C18: after every completed batch run a pair has an output raster exactly
\* when it is good, mode-corrected or integer-corrected; a pair has no output
\* raster when its decision begins, and a raster once written is not written
\* again.
C18_OutputIffRetained ==
    /\ [](pc \in {"report", "loop", "converged"} =>
             \A p \in Pairs : HasOutput(p) <=> InList(p, Retained))
    /\ [][/\ pc = "correct" => \A p \in evaluated' : ~HasOutput(p)
          /\ pc = "pool" => \A p \in evaluated' \ evaluated : ~HasOutput(p)
          /\ \A p \in Pairs : HasOutput(p) => outfile'[p] = outfile[p]]_vars

C18_Witness ==
    /\ pc = "report"
    /\ calls > 1
    /\ \E p \in evaluated : outfile[p].kind = "link"
    /\ \E p \in Pairs \ evaluated : HasOutput(p)
    /\ \E p \in Pairs : ~HasOutput(p)

\* C19: plot_networks gives a gap count of 1 whenever no pair is retained or
\* no link is strong, so when the strong-link file is written the retained
\* set and the strong links written are non-empty, and every strong link is
\* a retained pair.
C19_NeverConvergesEmpty ==
    /\ pc = "loop" => ((Retained = <<>> \/ strong_links = <<>>) => n_gap = 1)
    /\ strong_file # <<>> =>
          /\ Retained # <<>>
          /\ strong_file[1] # <<>>
          /\ SeqToSet(strong_file[1]) \subseteq SeqToSet(Retained)

C19_Witness ==
    /\ strong_file # <<>>
    /\ Len(strong_file[1]) > 0
    /\ \E r \in reports : r.good \o r.mode \o r.int = <<>>
    /\ \E r \in reports : r.good \o r.mode \o r.int # <<>> /\ r.bad # <<>>

\* C20: when the gap count is positive and the bad list is empty after an
\* iteration, the next step of main raises both thresholds, the call of
\* perform_correction that follows ends the process by the empty-batch exit,
\* and the strong-link file is not written in that run.
C20_GapWithoutBadAborts ==
    /\ [][(pc = "loop" /\ n_gap > 0 /\ bad_ifg_not_corrected = <<>>) =>
             /\ pc' = "correct"
             /\ correction_thresh' = correction_thresh + ThreshStep
             /\ target_thresh' = target_thresh + ThreshStep
             /\ bad_ifg_not_corrected' = <<>>]_vars
    /\ [][(pc = "correct" /\ calls > 0 /\ bad_ifg_not_corrected = <<>>) =>
             (pc' = "aborted" /\ strong_file' = <<>>)]_vars
    /\ [](pc = "aborted" => strong_file = <<>>)

C20_Witness ==
    /\ pc = "aborted"
    /\ n_gap > 0
    /\ bad_ifg_not_corrected = <<>>
    /\ strong_file = <<>>
    /\ Retained # <<>>
    /\ reports # {}
    /\ \A r \in reports : r.target_thresh < target_thresh

====
